---- MODULE Spec2Model ----
(***************************************************************************)
(* tyname: every supported type writes its name into a sink through        *)
(* TypeName::write_type_name, and type_name<T>() drives one such render     *)
(* against a fresh String.  A string is modelled as the sequence of its    *)
(* characters, a type as a record [kind, tag, n, args].                     *)
(***************************************************************************)
EXTENDS Integers, Sequences, FiniteSets, TLC

VARIABLES pc, ty, mode, fallible, stack, buf, base, out,
          attempts, failAt, lastRet, prev

vars == <<pc, ty, mode, fallible, stack, buf, base, out,
          attempts, failAt, lastRet, prev>>

Threads == {"t1", "t2"}

\* Longest content a sink holds before write_type_name is called on it.
MaxPre == 1

-----------------------------------------------------------------------------
(* Type terms *)

MkTy(k, g, len, as) == [kind |-> k, tag |-> g, n |-> len, args |-> as]

NoTy == MkTy("none", "", 0, <<>>)

Leaf(g) == MkTy("leaf", g, 0, <<>>)
Tuple(as) == MkTy("tuple", "", 0, as)
\* fn(params) -> ret, kept in the order of the macro's identifiers: ret first
FnPtr(ret, params) == MkTy("fn", "", 0, <<ret>> \o params)
Array(t, len) == MkTy("array", "", len, <<t>>)
Slice(t) == MkTy("slice", "", 0, <<t>>)
PtrRef(g, t) == MkTy("ptrref", g, 0, <<t>>)
SmartPtr(g, t) == MkTy("smartptr", g, 0, <<t>>)
Collection(g, t) == MkTy("collection", g, 0, <<t>>)
ResultOf(t, e) == MkTy("result", "", 0, <<t, e>>)
Cow(b) == MkTy("cow", "", 0, <<b>>)

Unit == Tuple(<<>>)

-----------------------------------------------------------------------------
(* The impls the crate declares *)

\* impl_naive_signature_hash!(ty, repr)
LeafRepr(g) ==
    CASE g = "String" -> <<"S","t","r","i","n","g">>
      [] g = "str"    -> <<"s","t","r">>
      [] g = "bool"   -> <<"b","o","o","l">>
      [] g = "char"   -> <<"c","h","a","r">>
      [] g = "u8"     -> <<"u","8">>
      [] g = "u16"    -> <<"u","1","6">>
      [] g = "u32"    -> <<"u","3","2">>
      [] g = "u64"    -> <<"u","6","4">>
      [] g = "u128"   -> <<"u","1","2","8">>
      [] g = "usize"  -> <<"u","s","i","z","e">>
      [] g = "i8"     -> <<"i","8">>
      [] g = "i16"    -> <<"i","1","6">>
      [] g = "i32"    -> <<"i","3","2">>
      [] g = "i64"    -> <<"i","6","4">>
      [] g = "i128"   -> <<"i","1","2","8">>
      [] g = "isize"  -> <<"i","s","i","z","e">>
      [] g = "f32"    -> <<"f","3","2">>
      [] g = "f64"    -> <<"f","6","4">>

LeafTypes == {"String", "str", "bool", "char", "u8", "u16", "u32", "u64",
              "u128", "usize", "i8", "i16", "i32", "i64", "i128", "isize",
              "f32", "f64"}

\* The identifiers both arity macros are invoked with.
TupleIdents == <<"T0", "T1", "T2", "T3", "T4", "T5", "T6", "T7", "T8", "T9">>
FnIdents == <<"T0", "T1", "T2", "T3", "T4", "T5", "T6", "T7", "T8", "T9">>

\* impl_tuple_signature_hash!: the arities its expansion declares an impl for.
RECURSIVE impl_tuple_signature_hash(_)
impl_tuple_signature_hash(idents) ==
    IF idents = <<>> THEN {0}
    ELSE IF Len(idents) = 1 THEN {1} \cup impl_tuple_signature_hash(<<>>)
    ELSE {Len(idents)} \cup impl_tuple_signature_hash(Tail(idents))

\* impl_fn_signature_hash!: the first identifier is the return type, the
\* others are parameters; the parameter counts its expansion declares.
RECURSIVE impl_fn_signature_hash(_)
impl_fn_signature_hash(idents) ==
    IF Len(idents) = 1 THEN {0}
    ELSE {Len(idents) - 1}
         \cup impl_fn_signature_hash(<<Head(idents)>> \o Tail(Tail(idents)))

TupleArities == impl_tuple_signature_hash(TupleIdents)
FnArities == impl_fn_signature_hash(FnIdents)

\* impl_array_signature_hash!( ... )
ArrayLens == (1..32) \cup {64, 128, 256, 512, 1024, 2048, 4096} \cup {160, 192}

PtrRefTags == {"&", "&mut", "*const", "*mut"}
SmartPtrTags == {"Box", "Rc", "Arc"}
CollectionTags == {"Option", "Vec", "VecDeque", "LinkedList"}

\* A type parameter without ?Sized is Sized: only str and [T] are not.
IsSized(t) == ~(t.kind = "slice" \/ (t.kind = "leaf" /\ t.tag = "str"))

\* std's Clone, which decides ToOwned for Cow's parameter.
RECURSIVE IsClone(_)
IsClone(t) ==
    CASE t.kind = "leaf" -> t.tag # "str"
      [] t.kind = "fn" -> TRUE
      [] t.kind = "slice" -> FALSE
      [] t.kind = "ptrref" -> t.tag # "&mut"
      [] t.kind = "smartptr" ->
            IF t.tag = "Box"
            THEN LET i == t.args[1] IN
                 IF i.kind = "slice" THEN IsClone(i.args[1])
                 ELSE IF i.kind = "leaf" /\ i.tag = "str" THEN TRUE
                 ELSE IsClone(i)
            ELSE TRUE
      [] t.kind = "cow" -> TRUE
      [] OTHER -> \A i \in 1..Len(t.args) : IsClone(t.args[i])

\* B: ToOwned
IsToOwned(b) ==
    IF b.kind = "slice" THEN IsClone(b.args[1])
    ELSE IF b.kind = "leaf" /\ b.tag = "str" THEN TRUE
    ELSE IsClone(b)

\* Whether an impl of TypeName matches the type (resolved at compile time).
RECURSIVE HasImpl(_)
HasImpl(t) ==
    LET allArgs == \A i \in 1..Len(t.args) : HasImpl(t.args[i])
        allSized == \A i \in 1..Len(t.args) : IsSized(t.args[i])
    IN CASE t.kind = "leaf" -> t.tag \in LeafTypes
         [] t.kind = "tuple" -> Len(t.args) \in TupleArities /\ allArgs /\ allSized
         [] t.kind = "fn" -> (Len(t.args) - 1) \in FnArities /\ allArgs /\ allSized
         [] t.kind = "array" -> t.n \in ArrayLens /\ allArgs /\ allSized
         [] t.kind = "slice" -> allArgs /\ allSized
         [] t.kind = "ptrref" -> t.tag \in PtrRefTags /\ allArgs
         [] t.kind = "smartptr" -> t.tag \in SmartPtrTags /\ allArgs
         [] t.kind = "collection" -> t.tag \in CollectionTags /\ allArgs /\ allSized
         [] t.kind = "result" -> allArgs /\ allSized
         [] t.kind = "cow" -> allArgs /\ IsToOwned(t.args[1])
         [] OTHER -> FALSE

-----------------------------------------------------------------------------
(* What each impl of write_type_name does: a list of sink writes and calls *)

WriteStr(s) == [op |-> "write", s |-> s, t |-> NoTy]
CallSlot(t) == [op |-> "call", s |-> <<>>, t |-> t]

Digits == <<"0", "1", "2", "3", "4", "5", "6", "7", "8", "9">>

\* Variant: the digits come out least significant first
RECURSIVE DecimalReversed(_)
DecimalReversed(len) ==
    IF len < 10 THEN <<Digits[len + 1]>>
    ELSE <<Digits[(len % 10) + 1]>> \o DecimalReversed(len \div 10)

\* write!(w, "{}", n): the decimal digits of n, most significant first
RECURSIVE Decimal(_)
Decimal(len) ==
    IF len < 10 THEN <<Digits[len + 1]>>
    ELSE Decimal(len \div 10) \o <<Digits[(len % 10) + 1]>>

\* Variant: the tuple separator loses its space
TupleSepNoSpace == <<",">>

TupleSep == <<",", " ">>
\* Variant: the parameter separator gains the space of the tuple one
FnSepWithSpace == <<",", " ">>

FnSep == <<",">>
UnaryTupleClose == <<",", ")">>

RECURSIVE TupleTail(_)
TupleTail(tail) ==
    IF tail = <<>> THEN <<>>
    ELSE <<WriteStr(TupleSep), CallSlot(Head(tail))>> \o TupleTail(Tail(tail))

TupleBody(as) ==
    IF as = <<>> THEN <<WriteStr(<<"(", ")">>)>>
    ELSE IF Len(as) = 1
    THEN <<WriteStr(<<"(">>), CallSlot(as[1]), WriteStr(UnaryTupleClose)>>
    ELSE <<WriteStr(<<"(">>), CallSlot(Head(as))>>
         \o TupleTail(Tail(as))
         \o <<WriteStr(<<")">>)>>

RECURSIVE FnTail(_)
FnTail(tail) ==
    IF tail = <<>> THEN <<>>
    ELSE <<WriteStr(FnSep), CallSlot(Head(tail))>> \o FnTail(Tail(tail))

\* as = <<ret, head, tail...>>
FnBody(as) ==
    IF Len(as) = 1
    THEN <<WriteStr(<<"f","n","(",")"," ","-",">"," ">>), CallSlot(as[1])>>
    ELSE <<WriteStr(<<"f","n","(">>), CallSlot(as[2])>>
         \o FnTail(Tail(Tail(as)))
         \o <<WriteStr(<<")"," ","-",">"," ">>), CallSlot(as[1])>>

\* Variant: the array impl leaves the length out
ArrayBodyNoLen(t, len) == <<WriteStr(<<"[">>), CallSlot(t), WriteStr(<<"]">>)>>

ArrayBody(t, len) ==
    <<WriteStr(<<"[">>), CallSlot(t), WriteStr(<<";", " ">>),
      WriteStr(Decimal(len)), WriteStr(<<"]">>)>>

SliceBody(t) == <<WriteStr(<<"[">>), CallSlot(t), WriteStr(<<"]">>)>>

\* Variant: the prefixes lose their trailing space
PtrRefPrefixTrimmed(g) ==
    CASE g = "&"      -> <<"&">>
      [] g = "&mut"   -> <<"&","m","u","t">>
      [] g = "*const" -> <<"*","c","o","n","s","t">>
      [] g = "*mut"   -> <<"*","m","u","t">>

PtrRefPrefix(g) ==
    CASE g = "&"      -> <<"&">>
      [] g = "&mut"   -> <<"&","m","u","t"," ">>
      [] g = "*const" -> <<"*","c","o","n","s","t"," ">>
      [] g = "*mut"   -> <<"*","m","u","t"," ">>

PtrRefBody(g, t) == <<WriteStr(PtrRefPrefix(g)), CallSlot(t)>>

SmartPtrRepr(g) ==
    CASE g = "Box" -> <<"B","o","x">>
      [] g = "Rc"  -> <<"R","c">>
      [] g = "Arc" -> <<"A","r","c">>

SmartPtrBody(g, t) ==
    <<WriteStr(SmartPtrRepr(g)), WriteStr(<<"<">>), CallSlot(t), WriteStr(<<">">>)>>

CollectionRepr(g) ==
    CASE g = "Option"     -> <<"O","p","t","i","o","n">>
      [] g = "Vec"        -> <<"V","e","c">>
      [] g = "VecDeque"   -> <<"V","e","c","D","e","q","u","e">>
      [] g = "LinkedList" -> <<"L","i","n","k","e","d","L","i","s","t">>

CollectionBody(g, t) ==
    <<WriteStr(CollectionRepr(g)), WriteStr(<<"<">>), CallSlot(t), WriteStr(<<">">>)>>

ResultSep == <<",", " ">>

ResultBody(t, e) ==
    <<WriteStr(<<"R","e","s","u","l","t","<">>), CallSlot(t),
      WriteStr(ResultSep), CallSlot(e), WriteStr(<<">">>)>>

CowBody(b) == <<WriteStr(<<"C","o","w","<">>), CallSlot(b), WriteStr(<<">">>)>>

\* The impl selected for a type.
Body(t) ==
    CASE t.kind = "leaf" -> <<WriteStr(LeafRepr(t.tag))>>
      [] t.kind = "tuple" -> TupleBody(t.args)
      [] t.kind = "fn" -> FnBody(t.args)
      [] t.kind = "array" -> ArrayBody(t.args[1], t.n)
      [] t.kind = "slice" -> SliceBody(t.args[1])
      [] t.kind = "ptrref" -> PtrRefBody(t.tag, t.args[1])
      [] t.kind = "smartptr" -> SmartPtrBody(t.tag, t.args[1])
      [] t.kind = "collection" -> CollectionBody(t.tag, t.args[1])
      [] t.kind = "result" -> ResultBody(t.args[1], t.args[2])
      [] t.kind = "cow" -> CowBody(t.args[1])

String_new == <<>>

\* write_type_name run to completion on a sink holding w whose writes succeed.
RECURSIVE write_type_name(_, _), RunOps(_, _)
write_type_name(w, t) == RunOps(w, Body(t))
RunOps(w, ops) ==
    IF ops = <<>> THEN w
    ELSE RunOps(IF Head(ops).op = "write" THEN w \o Head(ops).s
                ELSE write_type_name(w, Head(ops).t),
                Tail(ops))

\* type_name::<T>()
type_name(t) == write_type_name(String_new, t)

-----------------------------------------------------------------------------
(* The types renders are requested for *)

Mixed == <<Leaf("String"), Leaf("bool"), Leaf("char"), Leaf("u8"), Leaf("u16"),
           Leaf("u32"), Leaf("u64"), Leaf("u128"), Leaf("i8"), Leaf("i16"),
           Leaf("i32")>>

Nest1(t) == Tuple(<<t>>)

LeafPool == {Leaf(g) : g \in LeafTypes} \cup {Leaf("f16")}

TuplePool ==
    {Tuple(SubSeq(Mixed, 1, k)) : k \in 0..11}
    \cup {Tuple(<<Leaf("i32")>>), Tuple(<<Leaf("i32"), Leaf("u32")>>),
          Tuple(<<Leaf("bool"),
                  Tuple(<<Leaf("bool"),
                          Tuple(<<Leaf("bool"), Nest1(Leaf("bool"))>>)>>)>>),
          Nest1(Leaf("bool")), Nest1(Nest1(Leaf("bool"))),
          Nest1(Nest1(Nest1(Nest1(Leaf("bool"))))),
          Tuple(<<Tuple(<<Leaf("i32"), Leaf("u32")>>), Unit>>),
          Tuple(<<FnPtr(Leaf("i32"), <<>>), Leaf("u32")>>),
          Tuple(<<Leaf("i32"), Leaf("str")>>)}

FnPool ==
    {FnPtr(Leaf("bool"), SubSeq(Mixed, 1, k)) : k \in 0..10}
    \cup {FnPtr(Unit, <<>>), FnPtr(Leaf("bool"), <<Leaf("i32")>>),
          FnPtr(Leaf("bool"), <<Nest1(Leaf("i32"))>>),
          FnPtr(Unit, <<Leaf("i32"), Leaf("u32")>>),
          FnPtr(Tuple(<<Leaf("i32"), Leaf("u32")>>), <<>>),
          FnPtr(Leaf("bool"), <<Tuple(<<Leaf("i32"), Leaf("u32")>>), Leaf("u8")>>),
          FnPtr(FnPtr(Leaf("bool"), <<Leaf("i32")>>), <<Leaf("u8")>>),
          FnPtr(Leaf("bool"), <<Leaf("str")>>)}

ArrayProbe == (0..34) \cup {48, 64, 100, 128, 160, 192, 256, 512, 1024, 2048,
                            4096, 8192}

ArrayPool ==
    {Array(Leaf("u8"), len) : len \in ArrayProbe}
    \cup {Array(Leaf("u32"), 1), Array(Tuple(<<Leaf("u8"), Leaf("i16")>>), 10),
          Array(Array(Leaf("f32"), 4), 4),
          Array(Tuple(<<Leaf("u8"), Leaf("i8")>>), 16),
          Array(Leaf("str"), 4),
          Slice(Leaf("u32")), Slice(Nest1(Leaf("bool"))),
          Slice(Array(Leaf("i32"), 4)), Slice(Leaf("u8")),
          Slice(Slice(Leaf("u8")))}

WrapperPool ==
    {PtrRef(g, t) : g \in PtrRefTags,
                    t \in {Leaf("bool"), Leaf("str"), Slice(Leaf("i32"))}}
    \cup {SmartPtr(g, t) : g \in SmartPtrTags,
                           t \in {Leaf("i32"), Leaf("str"), Slice(Leaf("i32"))}}
    \cup {SmartPtr(g, SmartPtr(g, Unit)) : g \in SmartPtrTags}
    \cup {Collection(g, t) : g \in CollectionTags,
                             t \in {Leaf("i32"), SmartPtr("Box", Leaf("str")),
                                    Leaf("str")}}
    \cup {ResultOf(Unit, Unit), ResultOf(Leaf("i32"), Unit),
          ResultOf(Leaf("i32"), Leaf("String")), ResultOf(Unit, Leaf("String")),
          ResultOf(Leaf("str"), Unit),
          ResultOf(ResultOf(Leaf("i32"), Unit), Leaf("u8")),
          Cow(Leaf("String")), Cow(Leaf("str")), Cow(Slice(Leaf("i32"))),
          Cow(PtrRef("&mut", Leaf("bool"))),
          PtrRef("&", PtrRef("&mut", Leaf("bool")))}

\* Types requested by a single caller
SeqTypes == LeafPool \cup TuplePool \cup FnPool \cup ArrayPool \cup WrapperPool

\* Types requested by callers running side by side
ConcTypes == {Leaf("bool"), Nest1(Leaf("bool")),
              FnPtr(Leaf("bool"), <<Leaf("i32")>>),
              ResultOf(Leaf("i32"), Leaf("String")),
              Array(Leaf("u8"), 32),
              PtrRef("&mut", Slice(Leaf("i32"))),
              Array(Leaf("u8"), 33)}

\* Types whose write_type_name is called directly on a caller's sink
DirectTypes == {Leaf("bool"), Unit, Nest1(Nest1(Leaf("bool"))),
                Tuple(<<Leaf("i32"), Leaf("u32")>>),
                FnPtr(Leaf("bool"), <<Leaf("i32"), Leaf("u8")>>),
                FnPtr(Unit, <<>>),
                Array(Array(Leaf("f32"), 4), 4),
                Slice(Array(Leaf("i32"), 4)),
                PtrRef("*const", Leaf("str")),
                SmartPtr("Rc", Leaf("str")),
                Collection("VecDeque", SmartPtr("Box", Leaf("str"))),
                ResultOf(Leaf("i32"), Leaf("String")),
                Cow(Leaf("str"))}

ConcDirectTypes == {Nest1(Leaf("bool")), ResultOf(Leaf("i32"), Unit)}

\* What a caller's sink may hold before the call
Pre == {[i \in 1..k |-> "x"] : k \in 0..MaxPre}

-----------------------------------------------------------------------------
(* The render, one sink operation at a time *)

NoRet == [ty |-> NoTy, res |-> "none", frag |-> <<>>]
NoPrev == [ty |-> NoTy, out |-> <<>>]

\* Variant: the buffer is one static shared by all invocations
SharedBuffer(t) == "t1"

\* `let mut buffer`: the buffer is a local of the invocation
BufferOf(t) == t

Frame(t, at) == [ty |-> t, pos |-> 1, start |-> at]

Top(t) == stack[t][Len(stack[t])]
Pop(t) == SubSeq(stack[t], 1, Len(stack[t]) - 1)

\* Variant: an impl returns Ok before its last statement
FrameDoneEarly(f) == f.pos >= Len(Body(f.ty))

\* The body ran past its last statement
FrameDone(f) == f.pos > Len(Body(f.ty))

CurOp(t) == Body(Top(t).ty)[Top(t).pos]

\* Variant: a write replaces the content
Overwrite(w, s) == s

\* String::push_str / a sink's write_str: the text goes behind the content
write_str(w, s) == w \o s

\* Variant: the result of a write is dropped
Swallows(res) == FALSE

\* The ? operator: an Err leaves the function at once
Propagates(res) == res = "err"

Advance(t) == [stack[t] EXCEPT ![Len(stack[t])].pos = @ + 1]

Sink(t) == buf[BufferOf(t)]

Init ==
    /\ pc = [t \in Threads |-> "idle"]
    /\ ty = [t \in Threads |-> NoTy]
    /\ mode = [t \in Threads |-> "none"]
    /\ fallible = [t \in Threads |-> FALSE]
    /\ stack = [t \in Threads |-> <<>>]
    /\ buf = [t \in Threads |-> <<>>]
    /\ base = [t \in Threads |-> <<>>]
    /\ out = [t \in Threads |-> <<>>]
    /\ attempts = [t \in Threads |-> 0]
    /\ failAt = [t \in Threads |-> 0]
    /\ lastRet = [t \in Threads |-> NoRet]
    /\ prev = NoPrev

Begin(t, T, m, w, f) ==
    /\ pc' = [pc EXCEPT ![t] = "run"]
    /\ ty' = [ty EXCEPT ![t] = T]
    /\ mode' = [mode EXCEPT ![t] = m]
    /\ fallible' = [fallible EXCEPT ![t] = f]
    /\ buf' = [buf EXCEPT ![BufferOf(t)] = w]
    /\ base' = [base EXCEPT ![t] = w]
    /\ stack' = [stack EXCEPT ![t] = <<Frame(T, Len(w))>>]
    /\ attempts' = [attempts EXCEPT ![t] = 0]
    /\ failAt' = [failAt EXCEPT ![t] = 0]
    /\ lastRet' = [lastRet EXCEPT ![t] = NoRet]
    /\ UNCHANGED <<out, prev>>

\* type_name::<T>(): a fresh String, then T::write_type_name(&mut buffer)
TypeNameCall(t, T) ==
    /\ pc[t] = "idle"
    /\ HasImpl(T)
    /\ Begin(t, T, "type_name", String_new, FALSE)

\* T::write_type_name(&mut w) on a sink of the caller's
WriteTypeNameCall(t, T, w, f) ==
    /\ pc[t] = "idle"
    /\ HasImpl(T)
    /\ Begin(t, T, "write_type_name", w, f)

\* No impl matches: the call does not compile, nothing runs
NoMatch(t, T) ==
    /\ pc[t] = "idle"
    /\ ~HasImpl(T)
    /\ pc' = [pc EXCEPT ![t] = "nomatch"]
    /\ ty' = [ty EXCEPT ![t] = T]
    /\ UNCHANGED <<mode, fallible, stack, buf, base, out, attempts, failAt,
                   lastRet, prev>>

\* w.write_str(s)?  (and write!(w, "{}", n)?)
Write(t) ==
    /\ pc[t] = "run"
    /\ ~FrameDone(Top(t))
    /\ CurOp(t).op = "write"
    /\ attempts' = [attempts EXCEPT ![t] = @ + 1]
    /\ \/ /\ buf' = [buf EXCEPT ![BufferOf(t)] = write_str(@, CurOp(t).s)]
          /\ stack' = [stack EXCEPT ![t] = Advance(t)]
          /\ UNCHANGED <<pc, failAt>>
       \/ /\ fallible[t]
          /\ \E k \in 0..(Len(CurOp(t).s) - 1) :
                buf' = [buf EXCEPT ![BufferOf(t)] =
                            write_str(@, SubSeq(CurOp(t).s, 1, k))]
          /\ failAt' = [failAt EXCEPT ![t] = IF @ = 0 THEN attempts[t] + 1 ELSE @]
          /\ IF Propagates("err")
             THEN pc' = [pc EXCEPT ![t] = "unwind"] /\ UNCHANGED stack
             ELSE stack' = [stack EXCEPT ![t] = Advance(t)] /\ UNCHANGED pc
    /\ UNCHANGED <<ty, mode, fallible, base, out, lastRet, prev>>

\* X::write_type_name(w)?: the nested slot's impl starts
Descend(t) ==
    /\ pc[t] = "run"
    /\ ~FrameDone(Top(t))
    /\ CurOp(t).op = "call"
    /\ stack' = [stack EXCEPT ![t] = Append(@, Frame(CurOp(t).t, Len(Sink(t))))]
    /\ UNCHANGED <<pc, ty, mode, fallible, buf, base, out, attempts, failAt,
                   lastRet, prev>>

Returned(t, res) ==
    [ty |-> Top(t).ty, res |-> res,
     frag |-> SubSeq(Sink(t), Top(t).start + 1, Len(Sink(t)))]

\* An impl returns Ok(()) to its caller
Return(t) ==
    /\ pc[t] = "run"
    /\ FrameDone(Top(t))
    /\ lastRet' = [lastRet EXCEPT ![t] = Returned(t, "ok")]
    /\ IF Len(stack[t]) = 1
       THEN /\ pc' = [pc EXCEPT ![t] = "ok"]
            /\ stack' = [stack EXCEPT ![t] = <<>>]
       ELSE /\ stack' = [stack EXCEPT ![t] =
                            [Pop(t) EXCEPT ![Len(stack[t]) - 1].pos = @ + 1]]
            /\ UNCHANGED pc
    /\ UNCHANGED <<ty, mode, fallible, buf, base, out, attempts, failAt, prev>>

\* An impl returns the Err of a failed write or of a failed nested call
Unwind(t) ==
    /\ pc[t] = "unwind"
    /\ lastRet' = [lastRet EXCEPT ![t] = Returned(t, "err")]
    /\ stack' = [stack EXCEPT ![t] = Pop(t)]
    /\ pc' = [pc EXCEPT ![t] = IF Len(stack[t]) = 1 THEN "err" ELSE "unwind"]
    /\ UNCHANGED <<ty, mode, fallible, buf, base, out, attempts, failAt, prev>>

\* .expect(..); buffer
TypeNameFinish(t) ==
    /\ mode[t] = "type_name"
    /\ pc[t] \in {"ok", "err"}
    /\ IF pc[t] = "ok"
       THEN /\ pc' = [pc EXCEPT ![t] = "returned"]
            /\ out' = [out EXCEPT ![t] = Sink(t)]
       ELSE /\ pc' = [pc EXCEPT ![t] = "panicked"]
            /\ UNCHANGED out
    /\ UNCHANGED <<ty, mode, fallible, stack, buf, base, attempts, failAt,
                   lastRet, prev>>

\* The caller is done with the result; the sink is dropped.  prev keeps the
\* latest string type_name returned, for comparing later renders with it.
Reset(t) ==
    /\ \/ pc[t] \in {"returned", "panicked", "nomatch"}
       \/ mode[t] = "write_type_name" /\ pc[t] \in {"ok", "err"}
    /\ pc' = [pc EXCEPT ![t] = "idle"]
    /\ ty' = [ty EXCEPT ![t] = NoTy]
    /\ mode' = [mode EXCEPT ![t] = "none"]
    /\ fallible' = [fallible EXCEPT ![t] = FALSE]
    /\ stack' = [stack EXCEPT ![t] = <<>>]
    /\ buf' = [buf EXCEPT ![BufferOf(t)] = <<>>]
    /\ base' = [base EXCEPT ![t] = <<>>]
    /\ out' = [out EXCEPT ![t] = <<>>]
    /\ attempts' = [attempts EXCEPT ![t] = 0]
    /\ failAt' = [failAt EXCEPT ![t] = 0]
    /\ lastRet' = [lastRet EXCEPT ![t] = NoRet]
    /\ prev' = IF pc[t] = "returned" THEN [ty |-> ty[t], out |-> out[t]] ELSE prev

Steps(t) ==
    \/ Write(t)
    \/ Descend(t)
    \/ Return(t)
    \/ Unwind(t)
    \/ TypeNameFinish(t)
    \/ Reset(t)

\* Callers on several threads
Next ==
    \/ \E t \in Threads, T \in ConcTypes : TypeNameCall(t, T)
    \/ \E t \in Threads, T \in ConcDirectTypes, w \in Pre, f \in BOOLEAN :
            WriteTypeNameCall(t, T, w, f)
    \/ \E t \in Threads, T \in ConcTypes : NoMatch(t, T)
    \/ \E t \in Threads : Steps(t)

Spec == Init /\ [][Next]_vars

\* One caller, every type of the suite
NextSeq ==
    \/ \E T \in SeqTypes : TypeNameCall("t1", T)
    \/ \E T \in DirectTypes, w \in Pre, f \in BOOLEAN :
            WriteTypeNameCall("t1", T, w, f)
    \/ \E T \in SeqTypes : NoMatch("t1", T)
    \/ Steps("t1")

SpecSeq == Init /\ [][NextSeq]_vars

-----------------------------------------------------------------------------
(* Properties *)

IsPrefix(a, b) == Len(a) <= Len(b) /\ SubSeq(b, 1, Len(a)) = a

RECURSIVE Join(_, _)
Join(names, sep) ==
    IF names = <<>> THEN <<>>
    ELSE IF Len(names) = 1 THEN names[1]
    ELSE names[1] \o sep \o Join(Tail(names), sep)

\* The names type_name gives the nested slots of a type
SlotNames(T) == [i \in 1..Len(T.args) |-> type_name(T.args[i])]

UsableSlots(T) == \A i \in 1..Len(T.args) : HasImpl(T.args[i]) /\ IsSized(T.args[i])

\* C1: a tuple of arity 0..10 over supported (sized) element types has a name:
\* "()" for arity 0, "(" name ",)" for arity 1, and otherwise "(" the element
\* names in order joined by ", " ")", at every nesting depth.
C1_TupleRendering ==
    \A t \in Threads :
        ty[t].kind = "tuple" =>
            /\ (Len(ty[t].args) <= 10 /\ UsableSlots(ty[t])) => pc[t] # "nomatch"
            /\ pc[t] = "returned" =>
                 out[t] = CASE Len(ty[t].args) = 0 -> <<"(", ")">>
                            [] Len(ty[t].args) = 1 ->
                                 <<"(">> \o SlotNames(ty[t])[1] \o <<",", ")">>
                            [] OTHER ->
                                 <<"(">> \o Join(SlotNames(ty[t]), <<",", " ">>)
                                 \o <<")">>

C1_Witness ==
    \E t \in Threads :
        /\ pc[t] = "returned"
        /\ ty[t] = Nest1(Nest1(Nest1(Nest1(Leaf("bool")))))
        /\ out[t] = <<"(","(","(","(","b","o","o","l",",",")",",",")",",",")",",",")">>

\* C2: a supported function pointer is named "fn(" the parameter names in
\* order joined by "," ") -> " the name of the return type, the suffix being
\* there for a unit return type too.
C2_FnRendering ==
    \A t \in Threads :
        (pc[t] = "returned" /\ ty[t].kind = "fn") =>
            out[t] = <<"f", "n", "(">>
                     \o Join(Tail(SlotNames(ty[t])), <<",">>)
                     \o <<")", " ", "-", ">", " ">>
                     \o SlotNames(ty[t])[1]

C2_Witness ==
    \E t \in Threads :
        /\ pc[t] = "returned"
        /\ ty[t] = FnPtr(Unit, <<Leaf("i32"), Leaf("u32")>>)
        /\ out[t] = <<"f","n","(","i","3","2",",","u","3","2",")"," ","-",">"," ","(",")">>

\* C3: a function pointer with 0..10 parameters, all of them and the return
\* type supported, has a rendering rule.
C3_FnArity0To10 ==
    \A t \in Threads :
        (ty[t].kind = "fn" /\ Len(ty[t].args) - 1 \in 0..10 /\ UsableSlots(ty[t]))
            => pc[t] # "nomatch"

DigitValue(c) ==
    CASE c = "0" -> 0 [] c = "1" -> 1 [] c = "2" -> 2 [] c = "3" -> 3
      [] c = "4" -> 4 [] c = "5" -> 5 [] c = "6" -> 6 [] c = "7" -> 7
      [] c = "8" -> 8 [] c = "9" -> 9 [] OTHER -> -1

RECURSIVE DecValue(_)
DecValue(d) ==
    IF d = <<>> THEN 0
    ELSE DecValue(SubSeq(d, 1, Len(d) - 1)) * 10 + DigitValue(d[Len(d)])

\* d is the decimal numeral of len: digits only, no leading zero, value len
IsDecimalOf(d, len) ==
    /\ Len(d) >= 1
    /\ \A i \in 1..Len(d) : DigitValue(d[i]) >= 0
    /\ Len(d) > 1 => d[1] # "0"
    /\ DecValue(d) = len

\* C4: [T; N] over a supported element type has a name exactly for N in
\* 1..32, 64, 128, 256, 512, 1024, 2048, 4096, 160, 192, and the name is
\* "[" name(T) "; " decimal(N) "]"; the slice [T] is named "[" name(T) "]".
C4_ArraySliceRendering ==
    \A t \in Threads :
        /\ (ty[t].kind = "array" /\ UsableSlots(ty[t])) =>
             (pc[t] = "nomatch" <=>
                ty[t].n \notin ((1..32) \cup {64, 128, 256, 512, 1024, 2048, 4096,
                                              160, 192}))
        /\ (pc[t] = "returned" /\ ty[t].kind = "array") =>
             LET name == SlotNames(ty[t])[1]
                 d == SubSeq(out[t], Len(name) + 4, Len(out[t]) - 1)
             IN /\ out[t] = <<"[">> \o name \o <<";", " ">> \o d \o <<"]">>
                /\ IsDecimalOf(d, ty[t].n)
        /\ (pc[t] = "returned" /\ ty[t].kind = "slice") =>
             out[t] = <<"[">> \o SlotNames(ty[t])[1] \o <<"]">>

C4_Witness ==
    \E t \in Threads :
        /\ pc[t] = "returned"
        /\ ty[t] = Array(Array(Leaf("f32"), 4), 4)
        /\ out[t] = <<"[","[","f","3","2",";"," ","4","]",";"," ","4","]">>

WrapperLabel(T) ==
    CASE T.kind = "cow" -> <<"C","o","w">>
      [] T.tag = "Box" -> <<"B","o","x">>
      [] T.tag = "Rc" -> <<"R","c">>
      [] T.tag = "Arc" -> <<"A","r","c">>
      [] T.tag = "Option" -> <<"O","p","t","i","o","n">>
      [] T.tag = "Vec" -> <<"V","e","c">>
      [] T.tag = "VecDeque" -> <<"V","e","c","D","e","q","u","e">>
      [] T.tag = "LinkedList" -> <<"L","i","n","k","e","d","L","i","s","t">>

\* C5: a wrapper's name is its literals around the names of its slots:
\* "&" / "&mut " / "*const " / "*mut " before name(T); Label "<" name(T) ">"
\* for Box, Rc, Arc, Option, Vec, VecDeque, LinkedList and Cow;
\* "Result<" name(T) ", " name(E) ">".  References, raw pointers, Box, Rc, Arc
\* and Cow have a name over str and [i32] too.
C5_WrapperCompositionality ==
    \A t \in Threads :
        /\ (pc[t] = "returned" /\ ty[t].kind = "ptrref") =>
             out[t] = (CASE ty[t].tag = "&" -> <<"&">>
                         [] ty[t].tag = "&mut" -> <<"&","m","u","t"," ">>
                         [] ty[t].tag = "*const" -> <<"*","c","o","n","s","t"," ">>
                         [] ty[t].tag = "*mut" -> <<"*","m","u","t"," ">>)
                      \o SlotNames(ty[t])[1]
        /\ (pc[t] = "returned" /\ ty[t].kind \in {"smartptr", "collection", "cow"}) =>
             out[t] = WrapperLabel(ty[t]) \o <<"<">> \o SlotNames(ty[t])[1] \o <<">">>
        /\ (pc[t] = "returned" /\ ty[t].kind = "result") =>
             out[t] = <<"R","e","s","u","l","t","<">> \o SlotNames(ty[t])[1]
                      \o <<",", " ">> \o SlotNames(ty[t])[2] \o <<">">>
        /\ (/\ ty[t].kind \in {"ptrref", "smartptr", "cow"}
            /\ ty[t].args[1] \in {Leaf("str"), Slice(Leaf("i32"))}) =>
             pc[t] # "nomatch"

C5_Witness ==
    \E t \in Threads :
        /\ pc[t] = "returned"
        /\ ty[t] = PtrRef("&mut", Slice(Leaf("i32")))
        /\ out[t] = <<"&","m","u","t"," ","[","i","3","2","]">>

\* C10: two renders that return the same string were asked for the same
\* type: the name a type_name call returns differs from the name the call
\* before it returned unless both named one type.
C10_Injective ==
    \A t \in Threads :
        (pc[t] = "returned" /\ prev.ty # NoTy /\ out[t] = prev.out)
            => ty[t] = prev.ty

C10_Witness ==
    \E t \in Threads :
        /\ pc[t] = "returned"
        /\ ty[t] = Nest1(Leaf("bool"))
        /\ prev.ty = Leaf("bool")
        /\ out[t] # prev.out

\* C6: type_name<T>() returns the same string on every invocation: the
\* string the previous call for T returned, the string a call for T on
\* another thread returns, and the string of a render running alone; while
\* it runs its buffer holds nothing but what its own render appended.
C6_Deterministic ==
    \A t \in Threads :
        /\ (mode[t] = "type_name" /\ pc[t] \in {"run", "ok"}) =>
             IsPrefix(buf[BufferOf(t)], type_name(ty[t]))
        /\ pc[t] = "returned" =>
             /\ out[t] = type_name(ty[t])
             /\ prev.ty = ty[t] => out[t] = prev.out
             /\ \A u \in Threads :
                  (pc[u] = "returned" /\ ty[u] = ty[t]) => out[u] = out[t]

C6_Witness ==
    /\ \A t \in Threads : pc[t] = "returned" /\ ty[t] = ResultOf(Leaf("i32"), Leaf("String"))
    /\ prev.ty = ResultOf(Leaf("i32"), Leaf("String"))

\* C7: after the first failed write no further write is attempted, every
\* impl on the call path returns the failure up to the outermost one, and
\* type_name returns only a complete name of a render without a failure.
C7_FailurePropagation ==
    \A t \in Threads :
        /\ failAt[t] # 0 =>
             /\ attempts[t] = failAt[t]
             /\ pc[t] \in {"unwind", "err", "panicked"}
        /\ pc[t] = "err" => (lastRet[t].res = "err" /\ lastRet[t].ty = ty[t])
        /\ pc[t] = "returned" => (failAt[t] = 0 /\ out[t] = type_name(ty[t]))
        /\ pc[t] = "panicked" => failAt[t] # 0

C7_Witness ==
    \E t \in Threads :
        /\ pc[t] = "err"
        /\ ty[t].kind = "result"
        /\ failAt[t] = 3
        /\ attempts[t] = 3
        /\ lastRet[t].res = "err"

\* A type with nested slots (the unit type () has none)
IsComposite(T) == T.kind \notin {"leaf", "none"} /\ T.args # <<>>

\* C8 as stated: whenever write_type_name of a composite type returns, with
\* Ok or with Err, the sink has received its complete fragment.
C8_CompleteOnAnyReturn ==
    \A t \in Threads :
        (lastRet[t].res # "none" /\ IsComposite(lastRet[t].ty)) =>
            lastRet[t].frag = type_name(lastRet[t].ty)

\* C8 amended: whenever write_type_name of a composite type returns Ok to
\* its caller, the sink has received the impl's complete fragment, on a sink
\* whose writes can fail too.
C8_CompleteOnOkReturn ==
    \A t \in Threads :
        (lastRet[t].res = "ok" /\ IsComposite(lastRet[t].ty)) =>
            lastRet[t].frag = type_name(lastRet[t].ty)

C8_Witness ==
    \E t \in Threads :
        /\ fallible[t]
        /\ pc[t] = "run"
        /\ Len(stack[t]) = 1
        /\ lastRet[t].res = "ok"
        /\ lastRet[t].ty.kind = "smartptr"
        /\ ty[t].kind = "collection"

Running(t) == pc[t] \in {"run", "unwind", "ok", "err"}

\* C9: a render only appends: the sink always starts with the content c it
\* held at the call, every step leaves it an extension of what it was, a
\* successful call leaves exactly c followed by type_name<T>(), and the
\* string type_name returns is what its render appended to an empty buffer.
C9_AppendOnly ==
    /\ [](\A t \in Threads :
            /\ Running(t) => IsPrefix(base[t], buf[BufferOf(t)])
            /\ pc[t] = "ok" => buf[BufferOf(t)] = base[t] \o type_name(ty[t])
            /\ pc[t] = "returned" => (base[t] = <<>> /\ out[t] = buf[BufferOf(t)]))
    /\ [][\A t \in Threads :
            (Running(t) /\ pc'[t] # "idle") =>
                IsPrefix(buf[BufferOf(t)], buf'[BufferOf(t)])]_vars

C9_Witness ==
    \E t \in Threads :
        /\ pc[t] = "ok"
        /\ mode[t] = "write_type_name"
        /\ base[t] = <<"x">>
        /\ ty[t] = Slice(Array(Leaf("i32"), 4))
        /\ buf[BufferOf(t)] = <<"x","[","[","i","3","2",";"," ","4","]","]">>

====
